---- MODULE Spec2Model ----
(***************************************************************************)
(* Admission layer of the AI code reviewer: identity resolution, bot       *)
(* heuristic, fixed-window rate limiter, input validation and the request  *)
(* handlers (two serverless variants and the local Express server) around  *)
(* the single outbound completion call.                                    *)
(*                                                                         *)
(* JavaScript values are records tagged by `kind`.  A string is a sequence *)
(* of one-character strings, except the submitted code, which is kept as a *)
(* sequence of runs [ch, n] (n copies of ch) so that texts of 10,000       *)
(* characters stay small.                                                  *)
(***************************************************************************)
EXTENDS Integers, Sequences, FiniteSets, Bags, TLC

\* RATE_LIMIT (shared.js)
MAX_REQUESTS == 10
WINDOW_MS == 60 * 60 * 1000
MAX_CODE_LENGTH == 10000

\* Bounds of the model.
MaxInflight == 2    \* outbound completion calls pending at once

----------------------------------------------------------------------------
\* JavaScript values

Undef == [kind |-> "undefined"]
Str(s) == [kind |-> "string", s |-> s]
Arr(a) == [kind |-> "array", a |-> a]
Num(n) == [kind |-> "number", n |-> n]

\* ToBoolean: undefined, null, "" and 0 are falsy; arrays and objects are
\* truthy.
Truthy(v) ==
  CASE v.kind = "undefined" -> FALSE
    [] v.kind = "null" -> FALSE
    [] v.kind = "string" -> Len(v.s) > 0
    [] v.kind = "text" -> Len(v.runs) > 0
    [] v.kind = "number" -> v.n # 0
    [] OTHER -> TRUE

WhiteSpace == {" ", "\t", "\n"}

RECURSIVE TrimStart(_)
TrimStart(s) ==
  IF s # <<>> /\ Head(s) \in WhiteSpace THEN TrimStart(Tail(s)) ELSE s

RECURSIVE TrimEnd(_)
TrimEnd(s) ==
  IF s # <<>> /\ s[Len(s)] \in WhiteSpace
  THEN TrimEnd(SubSeq(s, 1, Len(s) - 1))
  ELSE s

\* String.prototype.trim
Trim(s) == TrimEnd(TrimStart(s))

\* s.split(',')[0]: the part of s before its first comma (all of s if none).
RECURSIVE SplitFirst(_)
SplitFirst(s) ==
  IF s = <<>> \/ Head(s) = "," THEN <<>> ELSE <<Head(s)>> \o SplitFirst(Tail(s))

LowerOf(c) ==
  CASE c = "B" -> "b" [] c = "C" -> "c" [] c = "O" -> "o" [] c = "T" -> "t"
    [] c = "U" -> "u" [] c = "R" -> "r" [] c = "L" -> "l" [] c = "M" -> "m"
    [] OTHER -> c

\* String.prototype.toLowerCase
ToLowerCase(s) == [i \in 1..Len(s) |-> LowerOf(s[i])]

\* String.prototype.includes
Includes(s, p) ==
  \E i \in 1..(Len(s) - Len(p) + 1) : SubSeq(s, i, i + Len(p) - 1) = p

----------------------------------------------------------------------------
\* getRateLimitKey (shared.js).  Result: [throws, value]; it throws the
\* TypeError of reading a property of undefined when req.headers is absent.

Header(req, name) == req.headers.h[name]

Thrown == [throws |-> TRUE, value |-> Undef]
Returned(v) == [throws |-> FALSE, value |-> v]

\* forwarded[0] / realIp[0]: undefined on an empty array
First(v) == IF Len(v.a) > 0 THEN v.a[1] ELSE Undef

\* req.socket?.remoteAddress
ConnectionIp(req) ==
  IF req.socket.kind = "undefined" THEN Undef ELSE req.socket.remoteAddress

\* Mutant: x-real-ip is consulted before x-forwarded-for.
getRateLimitKey_realIpFirst(req) ==
  IF req.headers.kind = "undefined" THEN Thrown
  ELSE
    LET forwarded == Header(req, "x-forwarded-for")
        realIp == Header(req, "x-real-ip")
        connectionIp == ConnectionIp(req)
    IN  IF Truthy(realIp)
        THEN Returned(IF realIp.kind = "array" THEN First(realIp) ELSE realIp)
        ELSE IF Truthy(forwarded)
        THEN Returned(IF forwarded.kind = "array" THEN First(forwarded)
                      ELSE Str(Trim(SplitFirst(forwarded.s))))
        ELSE IF Truthy(connectionIp)
        THEN Returned(connectionIp)
        ELSE Returned(Str(<<"l", "o", "c", "a", "l">>))

getRateLimitKey(req) ==
  IF req.headers.kind = "undefined" THEN Thrown
  ELSE
    LET forwarded == Header(req, "x-forwarded-for")
        realIp == Header(req, "x-real-ip")
        connectionIp == ConnectionIp(req)
    IN  IF Truthy(forwarded)
        THEN Returned(IF forwarded.kind = "array" THEN First(forwarded)
                      ELSE Str(Trim(SplitFirst(forwarded.s))))
        ELSE IF Truthy(realIp)
        THEN Returned(IF realIp.kind = "array" THEN First(realIp) ELSE realIp)
        ELSE IF Truthy(connectionIp)
        THEN Returned(connectionIp)
        ELSE Returned(Str(<<"l", "o", "c", "a", "l">>))

----------------------------------------------------------------------------
\* detectBot (shared.js)

botPatterns ==
  { <<"b", "o", "t">>, <<"c", "r", "a", "w", "l", "e", "r">>,
    <<"s", "p", "i", "d", "e", "r">>, <<"s", "c", "r", "a", "p", "e", "r">>,
    <<"c", "u", "r", "l">>, <<"w", "g", "e", "t">>,
    <<"p", "y", "t", "h", "o", "n">>, <<"j", "a", "v", "a">>,
    <<"g", "o", "-", "h", "t", "t", "p">>,
    <<"p", "o", "s", "t", "m", "a", "n">>,
    <<"i", "n", "s", "o", "m", "n", "i", "a">>,
    <<"h", "e", "a", "d", "l", "e", "s", "s">>,
    <<"p", "h", "a", "n", "t", "o", "m">>,
    <<"s", "e", "l", "e", "n", "i", "u", "m">>,
    <<"p", "u", "p", "p", "e", "t", "e", "e", "r">> }

\* req.headers['user-agent']?.toLowerCase() || ''
UserAgentOf(req) ==
  LET ua == Header(req, "user-agent")
  IN  IF ua.kind = "undefined" THEN <<>> ELSE ToLowerCase(ua.s)

\* Mutant: one missing header is enough to be suspicious.
detectBot_anyMissing(req) ==
  IF req.headers.kind = "undefined" THEN Thrown
  ELSE
    LET userAgent == UserAgentOf(req)
        isBotUA == \E pattern \in botPatterns : Includes(userAgent, pattern)
        hasAcceptHeader == Truthy(Header(req, "accept"))
        hasAcceptLanguage == Truthy(Header(req, "accept-language"))
        suspiciousHeaders == ~hasAcceptHeader \/ ~hasAcceptLanguage
        noReferer == ~Truthy(Header(req, "referer")) /\ req.method = "POST"
    IN  Returned(isBotUA \/ (suspiciousHeaders /\ noReferer))

detectBot(req) ==
  IF req.headers.kind = "undefined" THEN Thrown
  ELSE
    LET userAgent == UserAgentOf(req)
        isBotUA == \E pattern \in botPatterns : Includes(userAgent, pattern)
        hasAcceptHeader == Truthy(Header(req, "accept"))
        hasAcceptLanguage == Truthy(Header(req, "accept-language"))
        suspiciousHeaders == ~hasAcceptHeader /\ ~hasAcceptLanguage
        noReferer == ~Truthy(Header(req, "referer")) /\ req.method = "POST"
    IN  Returned(isBotUA \/ (suspiciousHeaders /\ noReferer))

----------------------------------------------------------------------------
\* checkRateLimit (shared.js).  The store is a function whose domain is the
\* set of keys of the Map; t is the reading of Date.now().

\* rateLimitStore.set(key, record)
StoreSet(st, key, record) ==
  [k \in DOMAIN st \cup {key} |-> IF k = key THEN record ELSE st[k]]

\* Mutant: the expiry comparison reversed.
WindowExpired_reversed(record, t) == t < record.resetTime

\* Mutant: a window outlives its resetTime by a millisecond.
WindowExpired_late(record, t) == t > record.resetTime + 1

\* now > record.resetTime
WindowExpired(record, t) == t > record.resetTime

\* Mutant: the call that opens a window is not counted.
FreshRecord_zero(t) == [count |-> 0, resetTime |-> t + WINDOW_MS]

\* { count: 1, resetTime: now + RATE_LIMIT.WINDOW_MS }
FreshRecord(t) == [count |-> 1, resetTime |-> t + WINDOW_MS]

\* Mutant: off by one, the quota is reached one call late.
QuotaReached_gt(record, maxRequests) == record.count > maxRequests

\* record.count >= maxRequests
QuotaReached(record, maxRequests) == record.count >= maxRequests

\* Mutant: opening a window sweeps the expired records out of the store.
ResetBranch_sweep(st, key, maxRequests, t) ==
  [store |-> StoreSet([k \in {j \in DOMAIN st : ~WindowExpired(st[j], t)} |->
                         st[k]],
                      key, FreshRecord(t)),
   result |-> [allowed |-> TRUE, remaining |-> maxRequests - 1,
               resetTime |-> t + WINDOW_MS],
   branch |-> "reset"]

ResetBranch(st, key, maxRequests, t) ==
  [store |-> StoreSet(st, key, FreshRecord(t)),
   result |-> [allowed |-> TRUE, remaining |-> maxRequests - 1,
               resetTime |-> t + WINDOW_MS],
   branch |-> "reset"]

\* Mutant: a rejected attempt is counted too.
RejectBranch_counts(st, key) ==
  [store |-> [st EXCEPT ![key].count = @ + 1],
   result |-> [allowed |-> FALSE, remaining |-> 0,
               resetTime |-> st[key].resetTime],
   branch |-> "reject"]

RejectBranch(st, key) ==
  [store |-> st,
   result |-> [allowed |-> FALSE, remaining |-> 0,
               resetTime |-> st[key].resetTime],
   branch |-> "reject"]

\* Mutant: the increment is made on a copy and never written back.
IncrementBranch_lost(st, key, maxRequests) ==
  [store |-> st,
   result |-> [allowed |-> TRUE,
               remaining |-> maxRequests - (st[key].count + 1),
               resetTime |-> st[key].resetTime],
   branch |-> "increment"]

\* Mutant: one counter for all identities.
IncrementBranch_shared(st, key, maxRequests) ==
  LET after == [k \in DOMAIN st |-> [st[k] EXCEPT !.count = @ + 1]]
  IN  [store |-> after,
       result |-> [allowed |-> TRUE,
                   remaining |-> maxRequests - after[key].count,
                   resetTime |-> after[key].resetTime],
       branch |-> "increment"]

\* record.count++ mutates the stored object in place
IncrementBranch(st, key, maxRequests) ==
  LET after == [st EXCEPT ![key].count = @ + 1]
  IN  [store |-> after,
       result |-> [allowed |-> TRUE,
                   remaining |-> maxRequests - after[key].count,
                   resetTime |-> after[key].resetTime],
       branch |-> "increment"]

\* Mutant: a sliding window, every allowed call restarts the hour.
checkRateLimit_sliding(st, key, maxRequests, t) ==
  IF key \notin DOMAIN st \/ WindowExpired(st[key], t)
  THEN ResetBranch(st, key, maxRequests, t)
  ELSE IF QuotaReached(st[key], maxRequests)
  THEN RejectBranch(st, key)
  ELSE LET inc == IncrementBranch(st, key, maxRequests)
       IN  [inc EXCEPT !.store[key].resetTime = t + WINDOW_MS,
                       !.result.resetTime = t + WINDOW_MS]

checkRateLimit(st, key, maxRequests, t) ==
  IF key \notin DOMAIN st \/ WindowExpired(st[key], t)
  THEN ResetBranch(st, key, maxRequests, t)
  ELSE IF QuotaReached(st[key], maxRequests)
  THEN RejectBranch(st, key)
  ELSE IncrementBranch(st, key, maxRequests)

----------------------------------------------------------------------------
\* validateInput (shared.js).  A text is [kind |-> "text", runs |-> <<..>>],
\* each run [ch, n] with n >= 1.

Text(runs) == [kind |-> "text", runs |-> runs]

RECURSIVE TextLength(_)
TextLength(runs) ==
  IF runs = <<>> THEN 0 ELSE Head(runs).n + TextLength(Tail(runs))

RECURSIVE TrimRunsStart(_)
TrimRunsStart(runs) ==
  IF runs # <<>> /\ Head(runs).ch \in WhiteSpace
  THEN TrimRunsStart(Tail(runs))
  ELSE runs

RECURSIVE TrimRunsEnd(_)
TrimRunsEnd(runs) ==
  IF runs # <<>> /\ runs[Len(runs)].ch \in WhiteSpace
  THEN TrimRunsEnd(SubSeq(runs, 1, Len(runs) - 1))
  ELSE runs

\* code.trim()
TrimRuns(runs) == TrimRunsEnd(TrimRunsStart(runs))

CodeLength(code) == TextLength(code.runs)

validateInput(code) ==
  IF ~Truthy(code) \/ code.kind # "text"
  THEN [valid |-> FALSE, error |-> "Code is required"]
  ELSE IF TextLength(TrimRuns(code.runs)) = 0
  THEN [valid |-> FALSE, error |-> "Code cannot be empty"]
  ELSE IF CodeLength(code) > MAX_CODE_LENGTH
  THEN [valid |-> FALSE,
        error |-> "Code is too long. Maximum 10000 characters allowed."]
  ELSE [valid |-> TRUE, error |-> ""]

----------------------------------------------------------------------------
\* callOpenAI (shared.js).  `reply` is what the network and the provider
\* do with the one outbound POST: the fetch rejects, or it resolves to a
\* response whose body parses or not, with status ok or not.

Raise(message) == [throws |-> TRUE, message |-> message, value |-> ""]
Return(value) == [throws |-> FALSE, message |-> "", value |-> value]

callOpenAI(reply) ==
  IF reply.transport = "failed" THEN Raise(reply.failure)
  ELSE IF ~reply.json THEN Raise("Unexpected token < in JSON at position 0")
  ELSE IF ~reply.ok
  THEN Raise(IF reply.errorMessage # "" THEN reply.errorMessage
             ELSE "OpenAI API error")
  ELSE IF ~reply.hasChoices
  THEN Raise("Cannot read properties of undefined (reading '0')")
  ELSE Return(reply.content)

----------------------------------------------------------------------------
\* The request handlers: "review" is api/review with the halved bot quota,
\* "review24h" the api/review variant with the flat bot quota of 2, and
\* "server" the Express route of the local development server.

Variants == {"review", "review24h", "server"}

\* Mutant: the bot branch multiplies where it should divide.
effectiveMaxRequests_doubled(v, isBot) ==
  IF isBot
  THEN (IF v = "review24h" THEN 2 * MAX_REQUESTS ELSE MAX_REQUESTS * 2)
  ELSE MAX_REQUESTS

effectiveMaxRequests(v, isBot) ==
  IF isBot
  THEN (IF v = "review24h" THEN 2 ELSE MAX_REQUESTS \div 2)
  ELSE MAX_REQUESTS

NoDate == [fmt |-> "none", t |-> 0]
\* resetDate.toISOString()
ToISOString(t) == [fmt |-> "iso", t |-> t]
\* resetDate.toLocaleString('en-US', {month, day, hour, minute})
ToLocaleString(t) == [fmt |-> "en-US", t |-> t - (t % 60000)]

RateLimitMessage(v, isBot, resetTime) ==
  IF v = "review24h"
  THEN IF isBot
       THEN [text |-> "Bot detected. Rate limit exceeded. You can make 2 requests per 24 hours. Try again after ",
             date |-> ToLocaleString(resetTime)]
       ELSE [text |-> "Rate limit exceeded. You can make 5 requests per 24 hours. Please try again after ",
             date |-> ToLocaleString(resetTime)]
  ELSE IF isBot
       THEN [text |-> "Bot detected. Rate limit exceeded for automated requests.",
             date |-> NoDate]
       ELSE [text |-> "Too many requests. Please try again after ",
             date |-> ToISOString(resetTime)]

MissingKeyError(v) ==
  IF v = "server"
  THEN "Server configuration error. Please set OPENAI_API_KEY in .env file"
  ELSE "Server configuration error"

NoRateLimit == [allowed |-> FALSE, remaining |-> 0, resetTime |-> 0]
NoResponse == [status |-> 0, body |-> [error |-> ""]]

\* What one run of the handler up to its first await (or its return) did.
\* steps: the stages the run executed, in the order of the code.
Outcome(st, outcome, response, steps, isBot, key, quota, rl, branch) ==
  [store |-> st, outcome |-> outcome, response |-> response, steps |-> steps,
   isBot |-> isBot, key |-> key, quota |-> quota, rateLimit |-> rl,
   branch |-> branch]

\* res.status(s).json(body)
Respond(st, status, body, steps, isBot, key, quota, rl, branch) ==
  Outcome(st, "responded", [status |-> status, body |-> body], steps,
          isBot, key, quota, rl, branch)

\* Mutant: the 429 body reports every caller as human.
RateLimited_notBot(v, rl, isBot, key, quota) ==
  Respond(rl.store, 429,
          [error |-> "Rate limit exceeded",
           message |-> RateLimitMessage(v, isBot, rl.result.resetTime),
           resetTime |-> rl.result.resetTime,
           isBot |-> FALSE],
          <<"detectBot", "getRateLimitKey", "checkRateLimit">>,
          isBot, key, quota, rl.result, rl.branch)

RateLimited(v, rl, isBot, key, quota) ==
  Respond(rl.store, 429,
          [error |-> "Rate limit exceeded",
           message |-> RateLimitMessage(v, isBot, rl.result.resetTime),
           resetTime |-> rl.result.resetTime,
           isBot |-> isBot],
          <<"detectBot", "getRateLimitKey", "checkRateLimit">>,
          isBot, key, quota, rl.result, rl.branch)

\* Mutant: the credential is not checked before the outbound call.
Admitted_noKeyCheck(v, req, rl, isBot, key, quota, apiKey) ==
  LET pre == <<"detectBot", "getRateLimitKey", "checkRateLimit">>
  IN  IF req.body.kind = "undefined"
      THEN Outcome(rl.store, "threw", NoResponse, pre, isBot, key, quota,
                   rl.result, rl.branch)
      ELSE IF ~validateInput(req.body.code).valid
      THEN Respond(rl.store, 400, [error |-> validateInput(req.body.code).error],
                   pre \o <<"validateInput">>,
                   isBot, key, quota, rl.result, rl.branch)
      ELSE Outcome(rl.store, "awaiting", NoResponse,
                   pre \o <<"validateInput", "apiKey", "callOpenAI">>,
                   isBot, key, quota, rl.result, rl.branch)

\* Mutant: a request refused for its input gives its slot back.
Admitted_refund(v, req, rl, isBot, key, quota, apiKey) ==
  LET pre == <<"detectBot", "getRateLimitKey", "checkRateLimit">>
  IN  IF req.body.kind = "undefined"
      THEN Outcome(rl.store, "threw", NoResponse, pre, isBot, key, quota,
                   rl.result, rl.branch)
      ELSE IF ~validateInput(req.body.code).valid
      THEN Respond([rl.store EXCEPT ![key].count = @ - 1], 400,
                   [error |-> validateInput(req.body.code).error],
                   pre \o <<"validateInput">>,
                   isBot, key, quota, rl.result, rl.branch)
      ELSE IF ~Truthy(apiKey)
      THEN Respond(rl.store, 500, [error |-> MissingKeyError(v)],
                   pre \o <<"validateInput", "apiKey">>,
                   isBot, key, quota, rl.result, rl.branch)
      ELSE Outcome(rl.store, "awaiting", NoResponse,
                   pre \o <<"validateInput", "apiKey", "callOpenAI">>,
                   isBot, key, quota, rl.result, rl.branch)

\* The handler after an allowed rate-limit check: validation, the
\* credential, then the outbound call.
Admitted(v, req, rl, isBot, key, quota, apiKey) ==
  LET pre == <<"detectBot", "getRateLimitKey", "checkRateLimit">>
  IN  IF req.body.kind = "undefined"
      THEN Outcome(rl.store, "threw", NoResponse, pre, isBot, key, quota,
                   rl.result, rl.branch)
      ELSE
        LET validation == validateInput(req.body.code)
        IN  IF ~validation.valid
            THEN Respond(rl.store, 400, [error |-> validation.error],
                         pre \o <<"validateInput">>,
                         isBot, key, quota, rl.result, rl.branch)
            ELSE IF ~Truthy(apiKey)
            THEN Respond(rl.store, 500, [error |-> MissingKeyError(v)],
                         pre \o <<"validateInput", "apiKey">>,
                         isBot, key, quota, rl.result, rl.branch)
            ELSE Outcome(rl.store, "awaiting", NoResponse,
                         pre \o <<"validateInput", "apiKey", "callOpenAI">>,
                         isBot, key, quota, rl.result, rl.branch)

\* Mutant: the input is validated before the rate limit is consulted.
handler_validateFirst(v, req, st, t, apiKey) ==
  IF v # "server" /\ req.method # "POST"
  THEN Respond(st, 405, [error |-> "Method not allowed"], <<>>,
               FALSE, Undef, 0, NoRateLimit, "none")
  ELSE IF req.body.kind = "object" /\ ~validateInput(req.body.code).valid
  THEN Respond(st, 400, [error |-> validateInput(req.body.code).error],
               <<"validateInput">>, FALSE, Undef, 0, NoRateLimit, "none")
  ELSE
    LET isBot == detectBot(req).value
        key == getRateLimitKey(req).value
        quota == effectiveMaxRequests(v, isBot)
        rl == checkRateLimit(st, key, quota, t)
    IN  IF ~rl.result.allowed
        THEN RateLimited(v, rl, isBot, key, quota)
        ELSE Admitted(v, req, rl, isBot, key, quota, apiKey)

\* Mutant: requests classified as a bot are counted on a record of their own.
handler_ownRecord(v, req, st, t, apiKey) ==
  IF v # "server" /\ req.method # "POST"
  THEN Respond(st, 405, [error |-> "Method not allowed"], <<>>,
               FALSE, Undef, 0, NoRateLimit, "none")
  ELSE
    LET isBot == detectBot(req).value
        address == getRateLimitKey(req).value
        key == IF isBot THEN Str(<<"b", "o", "t", ":">> \o address.s)
               ELSE address
        quota == effectiveMaxRequests(v, isBot)
        rl == checkRateLimit(st, key, quota, t)
    IN  IF ~rl.result.allowed
        THEN RateLimited(v, rl, isBot, key, quota)
        ELSE Admitted(v, req, rl, isBot, key, quota, apiKey)

handler(v, req, st, t, apiKey) ==
  IF v # "server" /\ req.method # "POST"
  THEN Respond(st, 405, [error |-> "Method not allowed"], <<>>,
               FALSE, Undef, 0, NoRateLimit, "none")
  ELSE
    LET bot == detectBot(req)
        rateLimitKey == getRateLimitKey(req)
    IN  IF bot.throws \/ rateLimitKey.throws
        THEN Outcome(st, "threw", NoResponse, <<"detectBot">>,
                     FALSE, Undef, 0, NoRateLimit, "none")
        ELSE
          LET isBot == bot.value
              key == rateLimitKey.value
              quota == effectiveMaxRequests(v, isBot)
              rl == checkRateLimit(st, key, quota, t)
          IN  IF ~rl.result.allowed
              THEN RateLimited(v, rl, isBot, key, quota)
              ELSE Admitted(v, req, rl, isBot, key, quota, apiKey)

\* How a request reaches the handler.  The serverless platform calls the
\* handler for every method; server.js registers it with app.post, so a
\* request with another method matches no route and the handler never runs:
\* nothing in server.js answers it.
Unrouted(st) ==
  Outcome(st, "unrouted", NoResponse, <<>>, FALSE, Undef, 0, NoRateLimit,
          "none")

Dispatch(v, req, st, t, apiKey) ==
  IF v = "server" /\ req.method # "POST"
  THEN Unrouted(st)
  ELSE handler(v, req, st, t, apiKey)

\* The handler after its await: the 200 response, or the catch block.
CatchMessage(v, message) ==
  IF v = "server" /\ message = "" THEN "Internal server error" ELSE message

\* Mutant: the 200 body reports the quota instead of what remains of it.
Completed_quota(v, entry, reply) ==
  LET review == callOpenAI(reply)
  IN  IF review.throws
      THEN [status |-> 500,
            body |-> [error |-> "Failed to review code",
                      message |-> CatchMessage(v, review.message)]]
      ELSE [status |-> 200,
            body |-> [review |-> review.value,
                      rateLimit |-> [remaining |-> entry.quota,
                                     resetTime |-> entry.rateLimit.resetTime]]]

Completed(v, entry, reply) ==
  LET review == callOpenAI(reply)
  IN  IF review.throws
      THEN [status |-> 500,
            body |-> [error |-> "Failed to review code",
                      message |-> CatchMessage(v, review.message)]]
      ELSE [status |-> 200,
            body |-> [review |-> review.value,
                      rateLimit |-> [remaining |-> entry.rateLimit.remaining,
                                     resetTime |-> entry.rateLimit.resetTime]]]

----------------------------------------------------------------------------
\* The requests of the model.

HeaderNames ==
  {"x-forwarded-for", "x-real-ip", "user-agent", "accept", "accept-language",
   "referer"}

Headers(given) ==
  [kind |-> "object",
   h |-> [n \in HeaderNames |-> IF n \in DOMAIN given THEN given[n] ELSE Undef]]

Socket(address) == [kind |-> "object", remoteAddress |-> address]

Mozilla == Str(<<"M", "o", "z", "i", "l", "l", "a">>)
Curl == Str(<<"c", "u", "r", "l", "/", "8", ".", "0">>)
AcceptAny == Str(<<"*", "/", "*">>)
IpB == Str(<<"b">>)
Proxy == Str(<<"p">>)

\* A browser behind a proxy chain: identity "a", not a bot.
BrowserA ==
  [headers |-> Headers(("x-forwarded-for" :> Str(<<"a", ",", " ", "p">>))
                       @@ ("user-agent" :> Mozilla) @@ ("accept" :> AcceptAny)
                       @@ ("accept-language" :> Str(<<"e", "n">>))),
   socket |-> Socket(Proxy)]

\* curl from the same address: identity "a", a bot by its user-agent.
CurlA ==
  [headers |-> Headers(("x-forwarded-for" :> Str(<<" ", "a">>))
                       @@ ("x-real-ip" :> IpB)
                       @@ ("user-agent" :> Curl) @@ ("accept" :> AcceptAny)),
   socket |-> Socket(Proxy)]

\* A bare client on a direct connection: identity "b", a bot on POST by its
\* missing accept, accept-language and referer headers.
BareB == [headers |-> Headers(<<>>), socket |-> Socket(IpB)]

Clients == {BrowserA, CurlA, BareB}

ValidCode == Text(<<[ch |-> "x", n |-> 14]>>)
BlankCode == Text(<<[ch |-> " ", n |-> 3]>>)
EmptyCode == Text(<<>>)

\* req.body: a parsed JSON object, or Undef when the platform parsed none.
Body(code) == [kind |-> "object", code |-> code]
Bodies == {Body(ValidCode), Body(BlankCode), Body(EmptyCode), Undef}

Request(method, client, body) ==
  [method |-> method, headers |-> client.headers, socket |-> client.socket,
   body |-> body]

Requests ==
  {Request("POST", c, b) : c \in Clients, b \in Bodies}
    \cup {Request("GET", BrowserA, Undef)}

\* What the provider and the network can do with an outbound call.
Reply(transport, json, ok, errorMessage, hasChoices) ==
  [transport |-> transport, failure |-> "fetch failed", json |-> json,
   ok |-> ok, errorMessage |-> errorMessage, hasChoices |-> hasChoices,
   content |-> "## Review"]

Replies ==
  {Reply("ok", TRUE, TRUE, "", TRUE),
   Reply("failed", FALSE, FALSE, "", FALSE),
   Reply("ok", FALSE, FALSE, "", FALSE),
   Reply("ok", TRUE, FALSE, "Incorrect API key provided", FALSE),
   Reply("ok", TRUE, FALSE, "", FALSE),
   Reply("ok", TRUE, TRUE, "Rate limit reached", FALSE)}

\* Clock readings: the start, the instant a window opened at the start ends,
\* and the millisecond after it.
TimePoints == {0, WINDOW_MS, WINDOW_MS + 1}

ApiKey == Str(<<"s", "k">>)

\* The runs explored: a process started without the credential (no handler
\* run ever suspends) that two clients talk to, either sharing one identity
\* or with one each; and a process that one client talks to, started with
\* or without the credential: either bot with every handler, the browser
\* (whose quota is the largest) with api/review.
Scenarios ==
  {[apiKey |-> Undef, clients |-> cs, variants |-> Variants] :
     cs \in {{BrowserA, CurlA}, {CurlA, BareB}}}
    \cup {[apiKey |-> k, clients |-> {c}, variants |-> Variants] :
             k \in {Undef, ApiKey}, c \in {CurlA, BareB}}
    \cup {[apiKey |-> k, clients |-> {BrowserA}, variants |-> {"review"}] :
             k \in {Undef, ApiKey}}

----------------------------------------------------------------------------
\* State

VARIABLES
  variant,         \* which handler this process runs
  apiKey,          \* process.env.OPENAI_API_KEY
  clients,         \* the clients that send requests to this process
  now,             \* Date.now()
  rateLimitStore,  \* the Map of shared.js
  pending,         \* bag of handler runs suspended at await callOpenAI
  last,            \* the most recent handler run or completion (observation)
  run,             \* per key, the calls of checkRateLimit in its current window
  marked           \* one of the runs answered 200 so far (observation)

vars ==
  <<variant, apiKey, clients, now, rateLimitStore, pending, last, run, marked>>

EmptyStore == [k \in {} |-> FreshRecord(0)]

\* No answered run is being kept.
NoMark == [key |-> Undef, quota |-> 0, rateLimit |-> NoRateLimit]

Min(a, b) == IF a < b THEN a ELSE b

\* The bookkeeping of one checkRateLimit call for `key` with quota q:
\* quota is q while every call of the window used q and 0 once they differ,
\* calls counts them (up to q + 1), admitted counts the allowed ones and
\* bots those of them that were classified as a bot.
Observe(r, key, q, t, out) ==
  IF out.branch = "reset"
  THEN StoreSet(r, key, [quota |-> q, calls |-> 1, admitted |-> 1,
                         bots |-> IF out.isBot THEN 1 ELSE 0,
                         createdAt |-> t])
  ELSE [r EXCEPT ![key] =
          [quota |-> IF @.quota = q THEN q ELSE 0,
           calls |-> IF @.quota = q THEN Min(@.calls + 1, q + 1) ELSE 0,
           admitted |-> @.admitted + (IF out.rateLimit.allowed THEN 1 ELSE 0),
           bots |-> @.bots + (IF out.rateLimit.allowed /\ out.isBot
                              THEN 1 ELSE 0),
           createdAt |-> @.createdAt]]

Init ==
  /\ \E s \in Scenarios :
       variant \in s.variants /\ apiKey = s.apiKey /\ clients = s.clients
  /\ now = 0
  /\ rateLimitStore = EmptyStore
  /\ pending = EmptyBag
  /\ last = [ev |-> "init"]
  /\ run = [k \in {} |-> 0]
  /\ marked = NoMark

\* Time passes.
Tick(t) ==
  /\ t > now
  /\ now' = t
  /\ last' = [ev |-> "tick"]
  /\ UNCHANGED <<variant, apiKey, clients, rateLimitStore, pending, run, marked>>

\* OPENAI_API_KEY is set in the environment of the running process; the
\* handlers read process.env on every request.  Explored for the processes
\* that one client talks to.
SetApiKey ==
  /\ ~Truthy(apiKey)
  /\ Cardinality(clients) = 1
  /\ apiKey' = ApiKey
  /\ last' = [ev |-> "env", after |-> last]
  /\ UNCHANGED <<variant, clients, now, rateLimitStore, pending, run, marked>>

\* Mutant: the suspended runs of a window share the result of its first
\* admission.
Suspended_first(out) ==
  [key |-> out.key, quota |-> out.quota,
   rateLimit |-> [out.rateLimit EXCEPT !.remaining = out.quota - 1]]

\* The suspended run of the handler: what its closure keeps of the request.
Suspended(out) ==
  [key |-> out.key, quota |-> out.quota, rateLimit |-> out.rateLimit]

\* The record checkRateLimit found for the key of the run (count 0: none).
NoRecord == [count |-> 0, resetTime |-> 0]
Before(st, out) ==
  IF out.branch # "none" /\ out.key \in DOMAIN st THEN st[out.key]
  ELSE NoRecord

\* A request arrives and its handler runs to its first await or its return.
Receive(req) ==
  /\ \E c \in clients : c.headers = req.headers
  /\ \E out \in {Dispatch(variant, req, rateLimitStore, now, apiKey)} :
       /\ out.outcome = "awaiting" => BagCardinality(pending) < MaxInflight
       /\ rateLimitStore' = out.store
       /\ pending' = IF out.outcome = "awaiting"
                     THEN pending (+) SetToBag({Suspended(out)})
                     ELSE pending
       /\ run' = IF out.branch = "none" THEN run
                 ELSE Observe(run, out.key, out.quota, now, out)
       /\ last' = [ev |-> "request", req |-> req,
                   before |-> Before(rateLimitStore, out),
                   out |-> [f \in DOMAIN out \ {"store"} |-> out[f]]]
  /\ UNCHANGED <<variant, apiKey, clients, now, marked>>

\* Mutant: a failed outbound call is made again.
Settle_retry(entry, reply) ==
  /\ BagIn(entry, pending)
  /\ pending' = IF callOpenAI(reply).throws THEN pending
                ELSE pending (-) SetToBag({entry})
  /\ last' = [ev |-> "settle", reply |-> reply,
              response |-> Completed(variant, entry, reply)]
  /\ UNCHANGED <<variant, apiKey, clients, now, rateLimitStore, run, marked>>

\* An outbound call settles and the suspended handler run resumes.
Settle(entry, reply) ==
  /\ BagIn(entry, pending)
  /\ pending' = pending (-) SetToBag({entry})
  /\ last' = [ev |-> "settle", reply |-> reply,
              response |-> Completed(variant, entry, reply)]
  /\ UNCHANGED <<variant, apiKey, clients, now, rateLimitStore, run, marked>>

\* Settle, keeping at most one of the runs answered 200 so that the later
\* 200 responses can be compared with it.
SettleObserved(entry, reply) ==
  /\ BagIn(entry, pending)
  /\ pending' = pending (-) SetToBag({entry})
  /\ \E response \in {Completed(variant, entry, reply)} :
       /\ last' = [ev |-> "settle", reply |-> reply, response |-> response]
       /\ marked' \in IF marked = NoMark /\ response.status = 200
                       THEN {marked, entry} ELSE {marked}
  /\ UNCHANGED <<variant, apiKey, clients, now, rateLimitStore, run>>

Next ==
  \/ \E t \in TimePoints : Tick(t)
  \/ SetApiKey
  \/ \E req \in Requests : Receive(req)
  \/ \E entry \in BagToSet(pending), reply \in Replies : Settle(entry, reply)

Spec == Init /\ [][Next]_vars

\* A process that holds the credential from its start, the only kind that
\* answers 200, with one answered run kept; its client is one of those whose
\* quota is the bot quota.
AnswerInit ==
  /\ Init
  /\ Truthy(apiKey)
  /\ \E c \in {CurlA, BareB} : clients = {c}

AnswerNext ==
  \/ \E t \in TimePoints : Tick(t)
  \/ \E req \in Requests : Receive(req)
  \/ \E entry \in BagToSet(pending), reply \in Replies :
       SettleObserved(entry, reply)

AnswerSpec == AnswerInit /\ [][AnswerNext]_vars

\* The handler runs that can be suspended at the outbound call: an allowed
\* check of one of the clients' keys under one of the quotas.
Entries ==
  {e \in [key : {getRateLimitKey(Request("POST", c, Undef)).value :
                   c \in Clients},
          quota : {effectiveMaxRequests(v, b) :
                     v \in Variants, b \in BOOLEAN},
          rateLimit : [allowed : {TRUE}, remaining : 0 .. MAX_REQUESTS - 1,
                       resetTime : {t + WINDOW_MS : t \in TimePoints}]] :
     e.rateLimit.remaining < e.quota}

\* The outbound call of a suspended run settles, whatever the reply.
SettleOf(entry) == \E reply \in Replies : Settle(entry, reply)

\* Every outbound call eventually succeeds or fails: the fetch of callOpenAI
\* resolves or rejects, and the awaiting run is then resumed.
LiveSpec == Spec /\ \A entry \in Entries : WF_vars(SettleOf(entry))

----------------------------------------------------------------------------
\* The exported functions of shared.js called on their own.  A behaviour of
\* FunctionSpec is one call: `last` holds the argument, then the argument
\* and what the function returned.

\* Arguments of validateInput: values that are not strings, and strings of
\* up to two runs around the length limit.
RunLengths == {1, MAX_CODE_LENGTH - 1, MAX_CODE_LENGTH, MAX_CODE_LENGTH + 1}
Runs == [ch : {" ", "\n", "x"}, n : RunLengths]
Codes ==
  {Undef, [kind |-> "null"], Num(0), Num(7), Arr(<<>>), [kind |-> "object"]}
    \cup {EmptyCode}
    \cup {Text(<<a>>) : a \in Runs}
    \cup {Text(<<a, b>>) : a \in Runs, b \in Runs}

\* Arguments of getRateLimitKey: header values as node delivers them (a
\* string, or nothing), with and without a socket address, and a request
\* without a headers object.
ForwardedValues ==
  {Undef, Str(<<>>), Str(<<"a">>), Str(<<" ", "a", " ", ",", " ", "p">>),
   Str(<<"a", ",", "p", ",", "q">>), Str(<<",", "a">>), Str(<<" ">>),
   Str(<<"n", "o", " ", "i", "p">>)}
RealIpValues == {Undef, Str(<<>>), Str(<<"b">>), Str(<<" ", "b">>)}
Sockets == {Undef, Socket(Undef), Socket(Str(<<"c">>))}
KeyRequests ==
  {[method |-> "POST",
    headers |-> Headers(("x-forwarded-for" :> f) @@ ("x-real-ip" :> r)),
    socket |-> sock, body |-> Undef] :
     f \in ForwardedValues, r \in RealIpValues, sock \in Sockets}
    \cup {[method |-> "POST", headers |-> Undef, socket |-> sock,
            body |-> Undef] : sock \in Sockets}

\* Arguments of detectBot.
UserAgents ==
  {Undef, Str(<<>>), Mozilla, Curl, Str(<<"M", "y", "B", "o", "T">>),
   Str(<<"o", "k", "h", "t", "t", "p">>)}
BotRequests ==
  {[method |-> m,
    headers |-> Headers(("user-agent" :> ua) @@ ("accept" :> acc)
                        @@ ("accept-language" :> lang) @@ ("referer" :> ref)),
    socket |-> Undef, body |-> Undef] :
     m \in {"POST", "GET"}, ua \in UserAgents,
     acc \in {Undef, Str(<<>>), AcceptAny},
     lang \in {Undef, Str(<<"e", "n">>)},
     ref \in {Undef, Str(<<>>), Str(<<"r">>)}}

\* What the network and the provider can do with the call of callOpenAI.
CompletionReplies ==
  {Reply(transport, json, ok, message, hasChoices) :
     transport \in {"ok", "failed"}, json \in BOOLEAN, ok \in BOOLEAN,
     message \in {"", "Incorrect API key provided"}, hasChoices \in BOOLEAN}

Call(fn, arg) == [ev |-> "call", fn |-> fn, arg |-> arg]

FunctionInit ==
  /\ variant = "review"
  /\ apiKey = Undef
  /\ clients = {}
  /\ now = 0
  /\ rateLimitStore = EmptyStore
  /\ pending = EmptyBag
  /\ run = [k \in {} |-> 0]
  /\ marked = NoMark
  /\ last \in {Call("validateInput", code) : code \in Codes}
             \cup {Call("getRateLimitKey", req) : req \in KeyRequests}
             \cup {Call("detectBot", req) : req \in BotRequests}
             \cup {Call("callOpenAI", reply) : reply \in CompletionReplies}

Returns(fn, result) ==
  /\ last.ev = "call"
  /\ last.fn = fn
  /\ last' = [ev |-> "return", fn |-> fn, arg |-> last.arg, result |-> result]
  /\ UNCHANGED <<variant, apiKey, clients, now, rateLimitStore, pending, run, marked>>

CallValidateInput == Returns("validateInput", validateInput(last.arg))
CallGetRateLimitKey == Returns("getRateLimitKey", getRateLimitKey(last.arg))
CallDetectBot == Returns("detectBot", detectBot(last.arg))
CallCallOpenAI == Returns("callOpenAI", callOpenAI(last.arg))

FunctionNext ==
  CallValidateInput \/ CallGetRateLimitKey \/ CallDetectBot \/ CallCallOpenAI

FunctionSpec == FunctionInit /\ [][FunctionNext]_vars

----------------------------------------------------------------------------
\* Properties

\* The last step was a handler run that called checkRateLimit.
Checked == last.ev = "request" /\ last.out.branch # "none"

\* The handler run of the step being taken called checkRateLimit.
CheckedStep == last'.ev = "request" /\ last'.out.branch # "none"

\* The record found before the call still had room under quota q at `now`.
HasQuota(before, q) ==
  before.count = 0 \/ now > before.resetTime \/ before.count < q

\* C1: while every call of a window passes the same quota q, the n-th call
\* of the window (the first being the one that created or reset the record)
\* is allowed with remaining = q - n for n <= q, and the (q+1)-th is
\* rejected with remaining = 0.
C1_QuotaCallsThenReject ==
  Checked /\ run[last.out.key].quota = last.out.quota =>
    LET q == last.out.quota
        n == run[last.out.key].calls
        result == last.out.rateLimit
    IN  /\ n <= q => result.allowed /\ result.remaining = q - n
        /\ n = q + 1 => ~result.allowed /\ result.remaining = 0

\* The eleventh call of a human within one window is the rejected one.
C1_Witness ==
  /\ Checked
  /\ run[last.out.key].quota = MAX_REQUESTS
  /\ run[last.out.key].calls = MAX_REQUESTS + 1
  /\ ~last.out.rateLimit.allowed

\* C2: under every interleaving of arrivals, completions and clock ticks,
\* the calls admitted for one identity within one window never exceed the
\* quota (the human quota at most, and the quota itself while all calls of
\* the window pass the same one), each admission takes its own slot of the
\* record, and no two suspended runs hold the same slot.
C2_AdmittedWithinQuota ==
  /\ \A k \in DOMAIN run :
       /\ run[k].admitted <= MAX_REQUESTS
       /\ run[k].quota # 0 => run[k].admitted <= run[k].quota
       /\ run[k].admitted = rateLimitStore[k].count
  /\ \A e \in BagToSet(pending) : CopiesIn(e, pending) = 1

\* The quota is used up while two admitted runs are still suspended.
C2_Witness ==
  /\ BagCardinality(pending) >= 2
  /\ \E k \in DOMAIN run :
       /\ run[k].quota # 0 /\ run[k].admitted = run[k].quota
       /\ \A e \in BagToSet(pending) :
            e.key = k /\ e.rateLimit.resetTime = rateLimitStore[k].resetTime

\* C3: a call that finds a record whose resetTime has elapsed overwrites it
\* with count 1 and resetTime now + WINDOW_MS and is allowed with
\* remaining = quota - 1, whatever the count was.
C3_ExpiredRecordIsReset ==
  Checked /\ last.before.count > 0 /\ now > last.before.resetTime =>
    /\ rateLimitStore[last.out.key] =
         [count |-> 1, resetTime |-> now + WINDOW_MS]
    /\ last.out.rateLimit =
         [allowed |-> TRUE, remaining |-> last.out.quota - 1,
          resetTime |-> now + WINDOW_MS]

\* An exhausted record is reset once its window is over.
C3_Witness ==
  /\ Checked
  /\ last.before.count = last.out.quota
  /\ now > last.before.resetTime
  /\ last.out.rateLimit.allowed

\* C4: a step whose checkRateLimit call is rejected leaves the whole store
\* as it was.
C4_RejectedLeavesStore ==
  [][CheckedStep /\ ~last'.out.rateLimit.allowed =>
       rateLimitStore' = rateLimitStore]_vars

\* A bot is rejected on a record a human has counted past the bot quota.
C4_Witness ==
  /\ Checked
  /\ ~last.out.rateLimit.allowed
  /\ last.out.isBot
  /\ rateLimitStore[last.out.key].count > last.out.quota

\* C5: every stored record has a count >= 1, and after an allowed call with
\* quota q the count of the record is <= q.
C5_CountBounds ==
  /\ \A k \in DOMAIN rateLimitStore :
       rateLimitStore[k].count \in Nat /\ rateLimitStore[k].count >= 1
  /\ Checked /\ last.out.rateLimit.allowed =>
       rateLimitStore[last.out.key].count <= last.out.quota

\* A bot takes the last slot of its reduced quota.
C5_Witness ==
  /\ Checked
  /\ last.out.isBot
  /\ last.out.rateLimit.allowed
  /\ rateLimitStore[last.out.key].count = last.out.quota

\* C6: the resetTime of every stored record is the instant its window was
\* opened (the call that created or reset it) plus WINDOW_MS; from one state
\* to the next no record disappears, no resetTime decreases, and a resetTime
\* changes only in a call for that key that creates or resets the record.
C6_ResetTimeFixedPerWindow ==
  /\ [](\A k \in DOMAIN rateLimitStore :
          rateLimitStore[k].resetTime = run[k].createdAt + WINDOW_MS)
  /\ [][\A k \in DOMAIN rateLimitStore :
          /\ k \in DOMAIN rateLimitStore'
          /\ rateLimitStore'[k].resetTime >= rateLimitStore[k].resetTime
          /\ rateLimitStore'[k].resetTime # rateLimitStore[k].resetTime =>
               CheckedStep /\ last'.out.key = k /\ last'.out.branch = "reset"]_vars

\* An expired record that had counted several calls is replaced by one with
\* a later resetTime.
C6_Witness ==
  /\ Checked
  /\ last.out.branch = "reset"
  /\ last.before.count > 1
  /\ rateLimitStore[last.out.key].resetTime > last.before.resetTime

\* C7: the quota passed to checkRateLimit for a bot-classified request is at
\* most the quota the same handler passes for a non-bot request, and a
\* window in which every call was bot-classified admits no more calls than
\* that.
C7_BotQuotaNotLaxer ==
  Checked /\ last.out.isBot =>
    /\ last.out.quota <= effectiveMaxRequests(variant, FALSE)
    /\ run[last.out.key].quota = last.out.quota =>
         run[last.out.key].admitted <= effectiveMaxRequests(variant, FALSE)

\* A bot is turned away at its own quota, below the human one.
C7_Witness ==
  /\ Checked
  /\ last.out.isBot
  /\ ~last.out.rateLimit.allowed
  /\ run[last.out.key].quota = last.out.quota
  /\ run[last.out.key].admitted = last.out.quota
  /\ last.out.quota < effectiveMaxRequests(variant, FALSE)

\* C8 (as the README states it): a window of non-bot calls admits at most 5,
\* a window of bot calls at most 2, and a window lasts 24 hours.
README_HUMAN_LIMIT == 5
README_BOT_LIMIT == 2
README_WINDOW_MS == 24 * 60 * 60 * 1000

C8_ReadmeLimits ==
  \A k \in DOMAIN run :
    /\ run[k].quota = effectiveMaxRequests(variant, FALSE) =>
         run[k].admitted <= README_HUMAN_LIMIT
    /\ (run[k].quota # 0 /\ run[k].quota # effectiveMaxRequests(variant, FALSE)) =>
         run[k].admitted <= README_BOT_LIMIT
    /\ rateLimitStore[k].resetTime = run[k].createdAt + README_WINDOW_MS

\* C9: a POST with a body whose code fails validation, from an identity that
\* still has quota, is answered 400 with the validator's message, the run
\* does not reach callOpenAI, and the record of the identity counts exactly
\* one more call than before (1 for a new or reset record).
InvalidCodeRequest ==
  /\ last.ev = "request"
  /\ last.req.method = "POST"
  /\ last.req.body.kind = "object"
  /\ ~validateInput(last.req.body.code).valid

C9_SlotConsumedBeforeValidation ==
  InvalidCodeRequest
    /\ HasQuota(last.before,
                effectiveMaxRequests(variant, detectBot(last.req).value)) =>
    LET key == getRateLimitKey(last.req).value
    IN  /\ last.out.outcome = "responded"
        /\ last.out.response =
             [status |-> 400,
              body |-> [error |-> validateInput(last.req.body.code).error]]
        /\ \A i \in 1..Len(last.out.steps) : last.out.steps[i] # "callOpenAI"
        /\ key \in DOMAIN rateLimitStore
        /\ rateLimitStore[key].count =
             IF last.before.count = 0 \/ now > last.before.resetTime
             THEN 1
             ELSE last.before.count + 1

\* With the credential configured, an invalid request takes the last slot.
C9_Witness ==
  /\ InvalidCodeRequest
  /\ Truthy(apiKey)
  /\ last.out.response.status = 400
  /\ last.before.count = last.out.quota - 1
  /\ rateLimitStore[last.out.key].count = last.out.quota

\* C10: when checkRateLimit rejects, the handler answers 429 with exactly
\* the fields error, message, resetTime (that of the stored record) and isBot
\* (the classification of the request), and the run executes neither
\* validateInput nor the credential check nor callOpenAI.
C10_RejectedGets429 ==
  Checked /\ ~last.out.rateLimit.allowed =>
    /\ last.out.outcome = "responded"
    /\ last.out.response.status = 429
    /\ DOMAIN last.out.response.body =
         {"error", "message", "resetTime", "isBot"}
    /\ getRateLimitKey(last.req).value \in DOMAIN rateLimitStore
    /\ last.out.response.body.resetTime =
         rateLimitStore[getRateLimitKey(last.req).value].resetTime
    /\ last.out.response.body.isBot = detectBot(last.req).value
    /\ \A i \in 1..Len(last.out.steps) :
         last.out.steps[i] \notin {"validateInput", "apiKey", "callOpenAI"}

\* A bot with valid code and a configured credential is turned away.
C10_Witness ==
  /\ Checked
  /\ ~last.out.rateLimit.allowed
  /\ last.out.isBot
  /\ Truthy(apiKey)
  /\ last.req.body = Body(ValidCode)
  /\ last.out.response.status = 429

\* The last step was a POST whose body carries code that passes validation.
ValidCodeRequest ==
  /\ last.ev = "request"
  /\ last.req.method = "POST"
  /\ last.req.body.kind = "object"
  /\ validateInput(last.req.body.code).valid

\* C11: while OPENAI_API_KEY is unset no handler run is suspended at
\* callOpenAI and no run reaches it, and a POST with valid code that passes
\* the rate limit is answered 500; once the variable is set, such a request
\* proceeds to the outbound call.
C11_NoCredentialNoCall ==
  /\ ~Truthy(apiKey) =>
       /\ pending = EmptyBag
       /\ last.ev = "request" =>
            /\ last.out.outcome # "awaiting"
            /\ \A i \in 1..Len(last.out.steps) : last.out.steps[i] # "callOpenAI"
  /\ ValidCodeRequest /\ Checked /\ last.out.rateLimit.allowed =>
       IF Truthy(apiKey)
       THEN /\ last.out.outcome = "awaiting"
            /\ BagIn(Suspended(last.out), pending)
       ELSE /\ last.out.outcome = "responded"
            /\ last.out.response.status = 500

\* The variable is set right after a valid request was refused with 500.
C11_Witness ==
  /\ last.ev = "env"
  /\ Truthy(apiKey)
  /\ last.after.ev = "request"
  /\ last.after.req.body = Body(ValidCode)
  /\ last.after.out.rateLimit.allowed
  /\ last.after.out.response.status = 500

\* C12 (as the specification states it): every handler run ends with one
\* JSON response whose status is 200, 400, 405, 429 or 500: a run that is not
\* suspended at the outbound call has responded, nothing is thrown out of
\* the handler, and a settled call is answered 200 or 500.
C12_AlwaysOneJsonResponse ==
  /\ last.ev = "request" =>
       /\ last.out.outcome \in {"responded", "awaiting"}
       /\ last.out.outcome = "responded" =>
            last.out.response.status \in {400, 405, 429, 500}
  /\ last.ev = "settle" => last.response.status \in {200, 500}

\* C13 (as the specification states it): a request whose method is not POST
\* is answered 405 with a JSON error before any other step: no stage of the
\* handler has run and checkRateLimit was not called.
C13_NonPostGets405 ==
  last.ev = "request" /\ last.req.method # "POST" =>
    /\ last.out.outcome = "responded"
    /\ last.out.response =
         [status |-> 405, body |-> [error |-> "Method not allowed"]]
    /\ last.out.steps = <<>>
    /\ last.out.branch = "none"

\* The provider answered the outbound call with a completion.
Succeeded(reply) ==
  reply.transport = "ok" /\ reply.json /\ reply.ok /\ reply.hasChoices

\* C14: a POST with valid code from an identity without a record, with the
\* credential set, is suspended at the outbound call holding remaining =
\* quota - 1 and the resetTime of the record just created; and when a call
\* succeeds, the suspended run that made it answers 200 with the review
\* exactly as the Completion Client returned it and the remaining and
\* resetTime it holds.
C14_FirstReviewAnswered ==
  /\ [](ValidCodeRequest /\ Checked /\ Truthy(apiKey) /\ last.before.count = 0 =>
          /\ last.out.outcome = "awaiting"
          /\ last.out.rateLimit =
               [allowed |-> TRUE, remaining |-> last.out.quota - 1,
                resetTime |-> rateLimitStore[last.out.key].resetTime]
          /\ rateLimitStore[last.out.key].count = 1
          /\ BagIn(Suspended(last.out), pending))
  /\ [][last'.ev = "settle" /\ Succeeded(last'.reply) =>
          \E e \in BagToSet(pending) :
            /\ pending' = pending (-) SetToBag({e})
            /\ last'.response =
                 [status |-> 200,
                  body |-> [review |-> last'.reply.content,
                            rateLimit |->
                              [remaining |-> e.rateLimit.remaining,
                               resetTime |-> e.rateLimit.resetTime]]]]_vars

\* The only call of the window of an identity has been answered 200.
C14_Witness ==
  /\ last.ev = "settle"
  /\ last.response.status = 200
  /\ pending = EmptyBag
  /\ \E k \in DOMAIN run :
       /\ run[k].calls = 1
       /\ run[k].admitted = 1
       /\ last.response.body.review = last.reply.content
       /\ last.response.body.rateLimit =
            [remaining |-> run[k].quota - 1,
             resetTime |-> rateLimitStore[k].resetTime]

\* C15 (as the specification states it): a POST whose code is the empty
\* string, from an identity that still has quota, is answered 400 with the
\* message "Code cannot be empty", and the run does not reach callOpenAI.
C15_EmptyCodeSaysEmpty ==
  /\ last.ev = "request"
  /\ last.req.method = "POST"
  /\ last.req.body = Body(EmptyCode)
  /\ Checked /\ last.out.rateLimit.allowed
  => /\ last.out.outcome = "responded"
     /\ last.out.response =
          [status |-> 400, body |-> [error |-> "Code cannot be empty"]]
     /\ \A i \in 1..Len(last.out.steps) : last.out.steps[i] # "callOpenAI"

\* validateInput, getRateLimitKey or detectBot has returned (or thrown).
Returned_(fn) == last.ev = "return" /\ last.fn = fn

\* C16 (as the specification states it): validateInput rejects a code that
\* is absent or not a string with "Code is required", a string all of whose
\* characters are whitespace (trimmed length 0) with "Code cannot be empty",
\* any other string whose raw length exceeds MAX_CODE_LENGTH with the
\* length-limit message, and accepts the rest: a non-blank string of raw
\* length exactly 10,000 is accepted, one of 10,001 rejected.
C16_ValidateInputRules ==
  Returned_("validateInput") =>
    LET code == last.arg
        result == last.result
    IN  IF code.kind # "text"
        THEN result = [valid |-> FALSE, error |-> "Code is required"]
        ELSE IF \A i \in 1..Len(code.runs) : code.runs[i].ch \in WhiteSpace
        THEN result = [valid |-> FALSE, error |-> "Code cannot be empty"]
        ELSE IF TextLength(code.runs) > MAX_CODE_LENGTH
        THEN result =
               [valid |-> FALSE,
                error |-> "Code is too long. Maximum 10000 characters allowed."]
        ELSE result.valid

\* A source of the identity that carries a value.
Present(v) == v.kind = "string" /\ v.s # <<>>

\* f is the first comma-separated value of s.
IsFirstField(f, s) ==
  \E k \in 1..(Len(s) + 1) :
    /\ f = SubSeq(s, 1, k - 1)
    /\ \A i \in 1..(k - 1) : s[i] # ","
    /\ k <= Len(s) => s[k] = ","

\* v is f without its leading and trailing whitespace.
IsTrimmed(v, f) ==
  \E i \in 1..(Len(f) + 1), j \in 0..Len(f) :
    /\ v = SubSeq(f, i, j)
    /\ \A a \in 1..(i - 1) : f[a] \in WhiteSpace
    /\ \A b \in (j + 1)..Len(f) : f[b] \in WhiteSpace
    /\ v # <<>> => v[1] \notin WhiteSpace /\ v[Len(v)] \notin WhiteSpace

\* C17: on a request with a headers object getRateLimitKey returns the
\* first comma-separated value of x-forwarded-for, trimmed, when that
\* header carries a value; else x-real-ip as it is; else the socket's remote
\* address as it is.  No value is checked to be an IP address.
C17_KeyPrecedence ==
  Returned_("getRateLimitKey") /\ last.arg.headers.kind = "object" =>
    LET forwarded == last.arg.headers.h["x-forwarded-for"]
        realIp == last.arg.headers.h["x-real-ip"]
        address == IF last.arg.socket.kind = "undefined" THEN Undef
                   ELSE last.arg.socket.remoteAddress
        key == last.result
    IN  /\ ~key.throws
        /\ IF Present(forwarded)
           THEN /\ key.value.kind = "string"
                /\ \E k \in 0..Len(forwarded.s) :
                     /\ IsFirstField(SubSeq(forwarded.s, 1, k), forwarded.s)
                     /\ IsTrimmed(key.value.s, SubSeq(forwarded.s, 1, k))
           ELSE IF Present(realIp) THEN key.value = realIp
           ELSE IF Present(address) THEN key.value = address
           ELSE TRUE

\* All three sources are present and the proxy chain's first hop wins.
C17_Witness ==
  /\ Returned_("getRateLimitKey")
  /\ last.arg.headers.kind = "object"
  /\ last.arg.headers.h["x-forwarded-for"] =
       Str(<<" ", "a", " ", ",", " ", "p">>)
  /\ Present(last.arg.headers.h["x-real-ip"])
  /\ last.arg.socket = Socket(Str(<<"c">>))
  /\ last.result = Returned(Str(<<"a">>))

\* No source of the identity carries a value.
NoSource(req) ==
  /\ ~Present(req.headers.h["x-forwarded-for"])
  /\ ~Present(req.headers.h["x-real-ip"])
  /\ req.socket.kind = "undefined" \/ ~Present(req.socket.remoteAddress)

\* C18 (as the specification states it): getRateLimitKey returns "local"
\* when neither header nor the socket carries a value, and "unknown" when
\* the request has no headers object.
C18_LocalAndUnknown ==
  Returned_("getRateLimitKey") =>
    IF last.arg.headers.kind = "undefined"
    THEN last.result = Returned(Str(<<"u", "n", "k", "n", "o", "w", "n">>))
    ELSE NoSource(last.arg) =>
           last.result = Returned(Str(<<"l", "o", "c", "a", "l">>))

\* The user-agent, lower-cased, contains a substring of the denylist.
DenyListed(req) ==
  LET ua == req.headers.h["user-agent"]
      chars == IF ua.kind = "string" THEN ua.s ELSE <<>>
  IN  \E p \in botPatterns, i \in 1..Len(chars) :
        /\ i + Len(p) - 1 <= Len(chars)
        /\ \A j \in 1..Len(p) : LowerOf(chars[i + j - 1]) = p[j]

\* C19: detectBot returns true exactly when the lower-cased user-agent
\* contains a denylist substring, or accept and accept-language are both
\* absent and the method is POST and referer is absent; a request with a
\* clean user-agent that carries one of accept and accept-language, or a
\* referer, is not a bot.
C19_BotIff ==
  Returned_("detectBot") =>
    LET req == last.arg
        accept == Present(req.headers.h["accept"])
        language == Present(req.headers.h["accept-language"])
        referer == Present(req.headers.h["referer"])
    IN  /\ ~last.result.throws
        /\ last.result.value =
             (DenyListed(req)
                \/ (~accept /\ ~language /\ req.method = "POST" /\ ~referer))
        /\ ~DenyListed(req) /\ (accept \/ language \/ referer) =>
             last.result.value = FALSE

\* A POST from a clean user-agent with accept but neither accept-language
\* nor referer is not a bot.
C19_Witness ==
  /\ Returned_("detectBot")
  /\ last.arg.method = "POST"
  /\ last.arg.headers.h["user-agent"] = Mozilla
  /\ Present(last.arg.headers.h["accept"])
  /\ ~Present(last.arg.headers.h["accept-language"])
  /\ ~Present(last.arg.headers.h["referer"])
  /\ last.result = Returned(FALSE)

\* C20 (as the specification states it): in every handler the 500 answer
\* to a request made while the credential is unset carries only the generic
\* message, with no mention of the credential, its environment variable or
\* how to set it.
C20_GenericConfigError ==
  /\ last.ev = "request"
  /\ ~Truthy(apiKey)
  /\ last.out.outcome = "responded"
  /\ last.out.response.status = 500
  => last.out.response.body = [error |-> "Server configuration error"]

\* C21 (as the specification states it): a transport failure is propagated
\* as it is; when the transport succeeded and the body is an error payload,
\* under a non-success status or a success status, callOpenAI fails with the
\* payload's message, or with "OpenAI API error" when it has none.
C21_ProviderErrorMessage ==
  Returned_("callOpenAI") =>
    LET reply == last.arg
    IN  IF reply.transport = "failed"
        THEN last.result = Raise(reply.failure)
        ELSE reply.json /\ (~reply.ok \/ ~reply.hasChoices) =>
               last.result = Raise(IF reply.errorMessage # ""
                                   THEN reply.errorMessage
                                   ELSE "OpenAI API error")

\* C22: a handler run reaches callOpenAI only for a POST that the rate
\* limiter allowed, whose code passed validation and with the credential
\* set, after those stages in that order and once; every step adds at most
\* one outbound call, and only a request does; the step that settles a call,
\* with a completion or a failure, removes it and starts none.
C22_OneCallInOrder ==
  /\ [](last.ev = "request" =>
          /\ last.out.outcome = "awaiting" =>
               /\ last.req.method = "POST"
               /\ last.out.rateLimit.allowed
               /\ last.req.body.kind = "object"
               /\ validateInput(last.req.body.code).valid
               /\ Truthy(apiKey)
               /\ last.out.steps =
                    <<"detectBot", "getRateLimitKey", "checkRateLimit",
                      "validateInput", "apiKey", "callOpenAI">>
          /\ last.out.outcome # "awaiting" =>
               \A i \in 1..Len(last.out.steps) :
                 last.out.steps[i] # "callOpenAI")
  /\ [][
         /\ BagCardinality(pending') <= BagCardinality(pending) + 1
         /\ (BagCardinality(pending') = BagCardinality(pending) + 1) =>
              (last'.ev = "request" /\ last'.out.outcome = "awaiting")
         /\ (last'.ev = "request" /\ last'.out.outcome # "awaiting") =>
              (pending' = pending)
         /\ last'.ev = "settle" =>
              BagCardinality(pending') = BagCardinality(pending) - 1]_vars

\* The only outbound call failed in transport and nothing is pending.
C22_Witness ==
  /\ last.ev = "settle"
  /\ last.reply.transport = "failed"
  /\ last.response.status = 500
  /\ pending = EmptyBag
  /\ \E k \in DOMAIN run : run[k].admitted = 1

\* What a caller sees of one handler run, and what it does to the store.
Visible(out) ==
  [outcome |-> out.outcome, status |-> out.response.status,
   store |-> out.store]

\* C23 (as the specification states it): api/review and the route of
\* server.js, which pass the same quotas, treat every request alike: from
\* the same store, clock and credential the same request (whatever its
\* method, headers and body) gets the same status and leaves the same store,
\* and the same settled call gets the same status.
C23_SameControlFlow ==
  /\ \A req \in Requests :
       Visible(Dispatch("review", req, rateLimitStore, now, apiKey)) =
         Visible(Dispatch("server", req, rateLimitStore, now, apiKey))
  /\ \A e \in BagToSet(pending), reply \in Replies :
       Completed("review", e, reply).status =
         Completed("server", e, reply).status

\* The last step rejected a request that was not classified as a bot.
HumanRejected ==
  Checked /\ ~last.out.isBot /\ ~last.out.rateLimit.allowed

\* C24 (as stated): the 429 answer to a rejected non-bot request carries
\* isBot = false and a resetTime strictly after the instant of the check.
C24_ResetTimeStrictlyAhead ==
  HumanRejected =>
    /\ last.out.response.status = 429
    /\ last.out.response.body.isBot = FALSE
    /\ last.out.response.body.resetTime > now

\* C24 (amended): the 429 answer to a rejected non-bot request carries
\* isBot = false and the resetTime of the identity's record, which is not
\* before the instant of the check: a record is still in force at the very
\* millisecond of its resetTime, so the two can be equal.
C24_ResetTimeNotBehind ==
  HumanRejected =>
    /\ last.out.response.status = 429
    /\ last.out.response.body.isBot = FALSE
    /\ last.out.response.body.resetTime = last.before.resetTime
    /\ last.out.response.body.resetTime >= now

\* A human is turned away at the very millisecond of the resetTime.
C24_Witness ==
  /\ HumanRejected
  /\ last.out.response.status = 429
  /\ last.before.count = MAX_REQUESTS
  /\ last.out.response.body.resetTime = now

\* C25: a checkRateLimit call for one identity leaves the record of every
\* other identity as it was, and its result is determined by the record of
\* its own identity, the quota and the clock alone.
C25_PerIdentity ==
  /\ [](Checked =>
          LET before == last.before
              q == last.out.quota
          IN  last.out.rateLimit =
                IF before.count = 0 \/ now > before.resetTime
                THEN [allowed |-> TRUE, remaining |-> q - 1,
                      resetTime |-> now + WINDOW_MS]
                ELSE IF before.count >= q
                THEN [allowed |-> FALSE, remaining |-> 0,
                      resetTime |-> before.resetTime]
                ELSE [allowed |-> TRUE, remaining |-> q - (before.count + 1),
                      resetTime |-> before.resetTime])
  /\ [][CheckedStep =>
          \A k \in DOMAIN rateLimitStore \ {last'.out.key} :
            k \in DOMAIN rateLimitStore' /\ rateLimitStore'[k] = rateLimitStore[k]]_vars

\* An identity makes its first call while another has used up its quota.
C25_Witness ==
  /\ Checked
  /\ last.before.count = 0
  /\ last.out.rateLimit.allowed
  /\ \E k \in DOMAIN rateLimitStore \ {last.out.key} :
       run[k].quota # 0 /\ rateLimitStore[k].count = run[k].quota

\* C26: no step removes an identity from the store, and a stored record,
\* expired or not, stays as it is until a checkRateLimit call for its own
\* identity.
C26_StoreOnlyGrows ==
  [][\A k \in DOMAIN rateLimitStore :
       /\ k \in DOMAIN rateLimitStore'
       /\ rateLimitStore'[k] # rateLimitStore[k] =>
            CheckedStep /\ last'.out.key = k]_vars

\* An expired record is still stored after another identity opened a window.
C26_Witness ==
  /\ Checked
  /\ last.out.branch = "reset"
  /\ \E k \in DOMAIN rateLimitStore \ {last.out.key} :
       now > rateLimitStore[k].resetTime

\* C27 (as the specification states it): a run suspends only at the outbound
\* call and every other run has responded in the step of its rate-limit
\* check; a suspended run is answered only by the settling of its call, how
\* much time passes notwithstanding; and, every outbound call settling
\* eventually, every request receives its response.
C27_EveryRequestAnswered ==
  /\ [](last.ev = "request" =>
          /\ last.out.outcome \in {"responded", "awaiting"}
          /\ last.out.outcome = "responded" =>
               last.out.response.status \in {400, 405, 429, 500}
          /\ last.out.outcome = "awaiting" =>
               last.out.steps[Len(last.out.steps)] = "callOpenAI")
  /\ [][\A entry \in BagToSet(pending) :
          CopiesIn(entry, pending') < CopiesIn(entry, pending) =>
            /\ last'.ev = "settle"
            /\ CopiesIn(entry, pending') = CopiesIn(entry, pending) - 1]_vars
  /\ \A entry \in Entries :
       BagIn(entry, pending) ~> ~BagIn(entry, pending)

\* C28: requests classified as a bot and requests that are not are counted
\* on the one record of the identity they resolve to.  Within one window the
\* admissions of an identity never exceed the human quota, those of them
\* classified as a bot never exceed the bot quota, and a request classified
\* as a bot is rejected whenever the count of the record has reached the bot
\* quota, whoever was admitted before.
C28_SharedRecord ==
  LET botQuota == effectiveMaxRequests(variant, TRUE)
  IN  /\ \A k \in DOMAIN run :
           /\ run[k].admitted <= MAX_REQUESTS
           /\ run[k].bots <= botQuota
           /\ run[k].bots <= run[k].admitted
           /\ run[k].admitted = rateLimitStore[k].count
      /\ Checked =>
           /\ last.out.key = getRateLimitKey(last.req).value
           /\ last.out.isBot = detectBot(last.req).value
      /\ Checked /\ last.out.isBot /\ last.before.count >= botQuota
                 /\ now <= last.before.resetTime =>
           /\ ~last.out.rateLimit.allowed
           /\ last.out.response.status = 429

\* A bot is rejected on a record that only humans have counted up to the bot
\* quota, while a human would still be admitted.
C28_Witness ==
  /\ Checked
  /\ last.out.isBot
  /\ ~last.out.rateLimit.allowed
  /\ run[last.out.key].bots = 0
  /\ run[last.out.key].admitted >= effectiveMaxRequests(variant, TRUE)
  /\ run[last.out.key].admitted < MAX_REQUESTS

\* C29: a consumed slot is never given back.  While a record keeps its
\* resetTime (one window) no step lowers its count; an admitted request that
\* is answered 400 or 500 in its own step leaves the count at what its
\* admission made it; and the settling of an outbound call, failed or not,
\* leaves the store as it was.
C29_SlotNeverReturned ==
  /\ [](Checked /\ last.out.rateLimit.allowed
                /\ last.out.outcome = "responded" =>
          /\ last.out.response.status \in {400, 500}
          /\ rateLimitStore[last.out.key].count =
               IF last.out.branch = "reset" THEN 1
               ELSE last.before.count + 1)
  /\ [][\A k \in DOMAIN rateLimitStore :
          k \in DOMAIN rateLimitStore' /\
            (rateLimitStore'[k].resetTime = rateLimitStore[k].resetTime =>
               rateLimitStore'[k].count >= rateLimitStore[k].count)]_vars
  /\ [][last'.ev = "settle" => rateLimitStore' = rateLimitStore]_vars

\* A request with invalid input has taken the second or a later slot of its
\* window and is answered 400.
C29_Witness ==
  /\ Checked
  /\ last.out.rateLimit.allowed
  /\ last.out.outcome = "responded"
  /\ last.out.response.status = 400
  /\ last.out.branch = "increment"
  /\ rateLimitStore[last.out.key].count = last.before.count + 1

\* C30: a run suspended at the outbound call holds the remaining and the
\* resetTime its own rate-limit check returned; no request and no passing of
\* time changes what a suspended run holds; the 200 response carries exactly
\* these values; and two 200 responses of one identity, admitted in the same
\* window under the same quota, never carry the same remaining, in whatever
\* order their calls complete.
C30_AdmissionValuesAnswered ==
  /\ [](last.ev = "request" /\ last.out.outcome = "awaiting" =>
          BagIn([key |-> last.out.key, quota |-> last.out.quota,
                 rateLimit |-> last.out.rateLimit], pending))
  /\ [][\A e \in BagToSet(pending) :
          /\ last'.ev # "settle" => CopiesIn(e, pending') = CopiesIn(e, pending)
          /\ (/\ last'.ev = "settle"
              /\ last'.response.status = 200
              /\ pending' = pending (-) SetToBag({e})) =>
               /\ last'.response.body.rateLimit =
                    [remaining |-> e.rateLimit.remaining,
                     resetTime |-> e.rateLimit.resetTime]
               /\ (/\ marked.key = e.key
                   /\ marked.quota = e.quota
                   /\ marked.rateLimit.resetTime = e.rateLimit.resetTime) =>
                    marked.rateLimit.remaining # e.rateLimit.remaining]_vars

\* Two runs admitted in one window are answered 200 in the reverse of their
\* order of admission, after the identity's next window has been opened.
C30_Witness ==
  /\ last.ev = "settle"
  /\ last.response.status = 200
  /\ marked # NoMark
  /\ marked.rateLimit.resetTime = last.response.body.rateLimit.resetTime
  /\ marked.rateLimit.remaining < last.response.body.rateLimit.remaining
  /\ \E k \in DOMAIN rateLimitStore :
       /\ k = marked.key
       /\ rateLimitStore[k].resetTime > marked.rateLimit.resetTime

====
